---- MODULE Spec2Model ----
(***************************************************************************)
(* A model of cc-tracker (src/src/db.rs): the calendar arithmetic, the     *)
(* statement-cycle resolver, and the card / spending store with the        *)
(* recommendation engine best_card_for_category.                           *)
(*                                                                         *)
(* Representation.                                                         *)
(*  - i32 arithmetic is Rust's: `/` truncates toward zero and `%` takes    *)
(*    the sign of the dividend (RustDiv, RustRem).  The year ranges used   *)
(*    here stay far from the 32-bit limits, so no operation wraps.         *)
(*  - A text value (a date, a category label) is the sequence of its       *)
(*    bytes: "2026-02-19" is <<50,48,50,54,45,48,50,45,49,57>>.  SQLite    *)
(*    compares TEXT bytewise (BINARY collation) and LOWER() folds the      *)
(*    ASCII letters only.                                                  *)
(*  - An f64 amount of money is an integer count of half dollars           *)
(*    (42.50 is 85, 5.0 is 10).  Every value k/2 of the sizes used here is *)
(*    exact in binary floating point, and so are the sums, differences,    *)
(*    comparisons and the floor of a quotient of two such values.          *)
(*  - Option<f64> is a sequence of length 0 (None) or 1 (Some).            *)
(*                                                                         *)
(* Specifications.  SpecCal: the calendar functions on their arguments.    *)
(* Spec: the store operations of two clients, interleaved statement by     *)
(* statement.  SpecFailure: add_card, add_spending and a                   *)
(* best_card_for_category whose storage calls may fail.  SpecConc: the     *)
(* calls that write the store, interleaved.  SpecSeq: the same calls of    *)
(* one client, each run to completion.                                     *)
(***************************************************************************)
EXTENDS Integers, Sequences, FiniteSets

VARIABLES cal, cards, spending, nextCardId, nextSpendId, last, conc

vars == <<cal, cards, spending, nextCardId, nextSpendId, last, conc>>

storeVars == <<cards, spending, nextCardId, nextSpendId, last, conc>>

----------------------------------------------------------------------------
(* Bounds of the model *)

\* Years drawn around each anchor year: anchor - YearSpan .. anchor + YearSpan.
YearSpan == 2

\* add_card calls that succeed in one behaviour (card ids are never reused).
MaxCards == 2

\* add_spending calls that succeed in one behaviour.
MaxSpending == 2

\* Clients of the store that may be inside a call at the same time.
Clients == 2

----------------------------------------------------------------------------
(* Rust integer arithmetic *)

\* i32 `/` with a positive divisor: truncation toward zero.
RustDiv(a, b) == IF a >= 0 THEN a \div b ELSE -((-a) \div b)

\* i32 `%`: the remainder has the sign of the dividend.
RustRem(a, b) == a - b * RustDiv(a, b)

----------------------------------------------------------------------------
(* Calendar module: db.rs 98-146 *)

ymd_to_days(year, month, day) ==
    LET y   == IF month <= 2 THEN year - 1 ELSE year
        era == RustDiv(IF y >= 0 THEN y ELSE y - 399, 400)
        yoe == y - era * 400
        m   == month
        doy == RustDiv(153 * (IF m > 2 THEN m - 3 ELSE m + 9) + 2, 5) + day - 1
        doe == yoe * 365 + RustDiv(yoe, 4) - RustDiv(yoe, 100) + doy
    IN  era * 146097 + doe - 719468

day_of_week_no7(year, month, day) ==
    LET days == ymd_to_days(year, month, day)
    IN  RustRem(RustRem(days, 7) + 3, 7)

\* 0 = Monday ... 5 = Saturday, 6 = Sunday.
day_of_week(year, month, day) ==
    LET days == ymd_to_days(year, month, day)
    IN  RustRem(RustRem(days, 7) + 7 + 3, 7)

days_to_ymd_noera(days) ==
    LET z   == days + 719468
        era == RustDiv(z, 146097)
        doe == z - era * 146097
        yoe == RustDiv(doe - RustDiv(doe, 1460) + RustDiv(doe, 36524)
                           - RustDiv(doe, 146096), 365)
        y0  == yoe + era * 400
        doy == doe - (365 * yoe + RustDiv(yoe, 4) - RustDiv(yoe, 100))
        mp  == RustDiv(5 * doy + 2, 153)
        d   == doy - RustDiv(153 * mp + 2, 5) + 1
        m   == IF mp < 10 THEN mp + 3 ELSE mp - 9
        y   == IF m <= 2 THEN y0 + 1 ELSE y0
    IN  <<y, m, d>>

days_to_ymd(days) ==
    LET z   == days + 719468
        era == RustDiv(IF z >= 0 THEN z ELSE z - 146096, 146097)
        doe == z - era * 146097
        yoe == RustDiv(doe - RustDiv(doe, 1460) + RustDiv(doe, 36524)
                           - RustDiv(doe, 146096), 365)
        y0  == yoe + era * 400
        doy == doe - (365 * yoe + RustDiv(yoe, 4) - RustDiv(yoe, 100))
        mp  == RustDiv(5 * doy + 2, 153)
        d   == doy - RustDiv(153 * mp + 2, 5) + 1
        m   == IF mp < 10 THEN mp + 3 ELSE mp - 9
        y   == IF m <= 2 THEN y0 + 1 ELSE y0
    IN  <<y, m, d>>

weekend_shift_sun1(dow) == IF dow = 5 THEN 1 ELSE IF dow = 6 THEN 1 ELSE 0

weekend_shift_satonly(dow) == IF dow = 5 THEN 1 ELSE 0

\* match dow { 5 => 1, 6 => 2, _ => 0 }
weekend_shift(dow) == IF dow = 5 THEN 1 ELSE IF dow = 6 THEN 2 ELSE 0

\* The date `shift` days earlier, through the day number; unchanged for shift 0.
shift_back(year, month, day, shift) ==
    IF shift = 0
    THEN <<year, month, day>>
    ELSE days_to_ymd(ymd_to_days(year, month, day) - shift)

adjust_for_weekend(year, month, day) ==
    shift_back(year, month, day, weekend_shift(day_of_week(year, month, day)))

----------------------------------------------------------------------------
(* Text: a value of type String / TEXT is the sequence of its bytes *)

RECURSIVE Digits(_)
\* The decimal digits of n >= 0, as bytes.
Digits(n) == IF n < 10 THEN <<48 + n>> ELSE Digits(n \div 10) \o <<48 + (n % 10)>>

RECURSIVE ZeroFill(_, _)
ZeroFill(s, width) == IF Len(s) >= width THEN s ELSE ZeroFill(<<48>> \o s, width)

\* format!("{:0w}", n) for an i32: at least `width` bytes, zero filled after the sign.
Pad(n, width) ==
    IF n >= 0 THEN ZeroFill(Digits(n), width)
              ELSE <<45>> \o ZeroFill(Digits(-n), width - 1)

\* format!("{:04}-{:02}-{:02}", y, m, d)
FormatDate(y, m, d) == Pad(y, 4) \o <<45>> \o Pad(m, 2) \o <<45>> \o Pad(d, 2)

RECURSIVE SplitDash(_, _)
\* reference_date.split('-'): `acc` is the part being read.
SplitDash(s, acc) ==
    IF s = <<>> THEN <<acc>>
    ELSE IF Head(s) = 45 THEN <<acc>> \o SplitDash(Tail(s), <<>>)
    ELSE SplitDash(Tail(s), Append(acc, Head(s)))

RECURSIVE ParseDigits(_, _)
ParseDigits(s, acc) ==
    IF s = <<>> THEN acc ELSE ParseDigits(Tail(s), 10 * acc + (Head(s) - 48))

\* str::parse::<i32>() of a run of decimal digits.
ParseI32(s) == ParseDigits(s, 0)

RECURSIVE TextCmp(_, _)
\* SQLite's BINARY collation on TEXT (memcmp, then the shorter first): -1, 0, 1.
TextCmp(a, b) ==
    IF a = <<>> /\ b = <<>> THEN 0
    ELSE IF a = <<>> THEN -1
    ELSE IF b = <<>> THEN 1
    ELSE IF Head(a) < Head(b) THEN -1
    ELSE IF Head(a) > Head(b) THEN 1
    ELSE TextCmp(Tail(a), Tail(b))

\* LOWER(): SQLite's built-in folds 'A'..'Z' only.
Lower(s) == [i \in DOMAIN s |-> IF s[i] \in 65..90 THEN s[i] + 32 ELSE s[i]]

----------------------------------------------------------------------------
(* Cycle resolver: db.rs 148-169 *)

\* format!("{:04}-{:02}-{:02}", ..) of a (year, month, day) triple.
FormatTriple(t) == FormatDate(t[1], t[2], t[3])

\* The branch of cycle_start_date, `a` being the adjusted renewal date of the
\* reference month: compared with `>` instead of `>=`.
cycle_start_branch_gt(renewal_day, year, month, day, a) ==
    IF day > a[3] /\ a[2] = month
    THEN FormatTriple(a)
    ELSE FormatTriple(adjust_for_weekend(IF month = 1 THEN year - 1 ELSE year,
                                         IF month = 1 THEN 12 ELSE month - 1,
                                         renewal_day))

\* The branch without the weekend adjustment.
cycle_start_branch_raw(renewal_day, year, month, day, a) ==
    IF day >= renewal_day
    THEN FormatDate(year, month, renewal_day)
    ELSE FormatDate(IF month = 1 THEN year - 1 ELSE year,
                    IF month = 1 THEN 12 ELSE month - 1,
                    renewal_day)

\* db.rs 160-168: `a` is (ay, am, ad), the adjusted renewal date of this month.
cycle_start_branch(renewal_day, year, month, day, a) ==
    IF day >= a[3] /\ a[2] = month
    THEN FormatTriple(a)
    ELSE FormatTriple(adjust_for_weekend(IF month = 1 THEN year - 1 ELSE year,
                                         IF month = 1 THEN 12 ELSE month - 1,
                                         renewal_day))

\* db.rs 157-158, on the parsed reference date.
cycle_start_of(renewal_day, year, month, day) ==
    cycle_start_branch(renewal_day, year, month, day,
                       adjust_for_weekend(year, month, renewal_day))

\* db.rs 152-155: the three parts of the reference date, parsed.
cycle_start_parts(renewal_day, parts) ==
    cycle_start_of(renewal_day, ParseI32(parts[1]), ParseI32(parts[2]), ParseI32(parts[3]))

cycle_start_date(renewal_day, reference_date) ==
    cycle_start_parts(renewal_day, SplitDash(reference_date, <<>>))

----------------------------------------------------------------------------
(* f64 values that need not be finite: miles_earned *)

Num(v) == [kind |-> "num", val |-> v]

PosInf == [kind |-> "inf", val |-> 1]

NegInf == [kind |-> "inf", val |-> -1]

NaN == [kind |-> "nan", val |-> 0]

\* floor(a / b) of two finite values, b # 0.
FloorQuotient(a, b) == IF b > 0 THEN a \div b ELSE (-a) \div (-b)

\* The outcome of the last call: Ok(val) or Err.
Call(op, args, ok, val) == [op |-> op, args |-> args, ok |-> ok, val |-> val]

NoCall == Call("none", <<>>, TRUE, <<>>)

\* The outcome of a call that returned the Result `res`.
\* The clients of one store, each between the statements of its call: what
\* add_spending holds after its card lookup (its arguments and the card's
\* miles_per_dollar and block_size), the id remove_card holds after its first
\* DELETE, and the arguments, candidate rows and recommendations pushed so far
\* of best_card_for_category.  foreign_keys is whether the build of SQLite
\* enforces `REFERENCES cards(id)`; the program never sets the pragma.  clients
\* is the number of calls that may be in progress at once.
ConcIdle(fk, n) ==
    [foreign_keys |-> fk, clients |-> n, spend |-> <<>>, remove |-> <<>>, query |-> <<>>]

\* Option<f64>
None == <<>>

Some(v) == <<v>>

----------------------------------------------------------------------------
(* Reward computation: db.rs 276-279 *)

calculate_miles_prorata(amount, block_size, miles_per_dollar) ==
    IF block_size # 0
    THEN Num(FloorQuotient(amount * miles_per_dollar, block_size))
    ELSE NaN

\* (amount / block_size).floor() * miles_per_dollar, with IEEE division by zero.
calculate_miles(amount, block_size, miles_per_dollar) ==
    IF block_size # 0
    THEN Num(FloorQuotient(amount, block_size) * miles_per_dollar)
    ELSE IF amount = 0 \/ miles_per_dollar = 0 THEN NaN
    ELSE IF (amount > 0) = (miles_per_dollar > 0) THEN PosInf
    ELSE NegInf

----------------------------------------------------------------------------
(* Recommendation engine: db.rs 171-272 *)

\* The SQL expression c.miles_per_dollar / c.block_size: NULL (None) when the
\* divisor is zero, else the quotient as a fraction <<numerator, denominator>>
\* with a positive denominator.  block_size counts half dollars, so the rate
\* per dollar is 2 * miles_per_dollar / block_size.
EffectiveRate(c) ==
    IF c.block_size = 0 THEN None
    ELSE IF c.block_size > 0 THEN Some(<<2 * c.miles_per_dollar, c.block_size>>)
    ELSE Some(<<-2 * c.miles_per_dollar, -c.block_size>>)

\* Order of two rates that are not NULL.
RateLT(a, b) == a[1] * b[2] < b[1] * a[2]

\* ORDER BY effective_rate DESC: row a may come before row b (NULLs last).
RowBefore(a, b) ==
    \/ EffectiveRate(b) = None
    \/ EffectiveRate(a) # None /\ ~RateLT(EffectiveRate(a)[1], EffectiveRate(b)[1])

\* FROM cards c, json_each(c.categories) j, json_each(c.payment_categories) p
\* WHERE LOWER(j.value) = LOWER(?1) AND LOWER(p.value) = LOWER(?2)
Matches(c, category, payment_category) ==
    \E j \in DOMAIN c.categories, p \in DOMAIN c.payment_categories :
        /\ Lower(c.categories[j]) = Lower(category)
        /\ Lower(c.payment_categories[p]) = Lower(payment_category)

\* SELECT DISTINCT c.id, ...: one row per card, however many entries match.
CandidateRows(cs, category, payment_category) ==
    {c \in cs : Matches(c, category, payment_category)}

\* The orders in which the statement may return the rows: sorted by
\* effective_rate descending, rows of equal rate in any order.
CandidateOrders(cs, category, payment_category) ==
    LET rows == CandidateRows(cs, category, payment_category)
        n    == Cardinality(rows)
    IN  {s \in [1..n -> rows] :
            /\ \A i, j \in 1..n : i # j => s[i] # s[j]
            /\ \A i, j \in 1..n : i < j => RowBefore(s[i], s[j])}

RECURSIVE SumAmounts(_)
SumAmounts(rs) ==
    IF rs = {} THEN 0
    ELSE LET r == CHOOSE x \in rs : TRUE IN r.amount + SumAmounts(rs \ {r})

\* The cycle total taken with AVG in place of SUM.
CycleTotalAvg(sp, card_id, cycle_start) ==
    LET rs == {r \in sp : r.card_id = card_id /\ TextCmp(r.date, cycle_start) >= 0}
    IN  IF rs = {} THEN 0 ELSE SumAmounts(rs) \div Cardinality(rs)

CycleTotalStrict(sp, card_id, cycle_start) ==
    SumAmounts({r \in sp : r.card_id = card_id /\ TextCmp(r.date, cycle_start) > 0})

\* SELECT COALESCE(SUM(amount), 0.0) FROM spending WHERE card_id = ?1 AND date >= ?2
CycleTotal(sp, card_id, cycle_start) ==
    SumAmounts({r \in sp : r.card_id = card_id /\ TextCmp(r.date, cycle_start) >= 0})

Max(a, b) == IF a >= b THEN a ELSE b

\* card.max_reward_limit.map(|limit| (limit - cycle_total).max(0.0))
RemainingLimit(max_reward_limit, cycle_total) ==
    IF max_reward_limit = None THEN None
    ELSE Some(Max(max_reward_limit[1] - cycle_total, 0))

\* Decide with the limit compared by >= : an amount equal to what remains is refused.
Decide_ge(card, amount, miles_this_txn, cycle_total, remaining_limit) ==
    LET exceeded_limit == IF remaining_limit = None THEN FALSE
                          ELSE amount >= remaining_limit[1]
        min_spend_met  == IF card.min_spend = None THEN TRUE
                          ELSE cycle_total >= card.min_spend[1]
    IN  [card_name        |-> card.name,
         miles_per_dollar |-> card.miles_per_dollar,
         block_size       |-> card.block_size,
         effective_rate   |-> EffectiveRate(card)[1],
         miles_earned     |-> miles_this_txn,
         remaining_limit  |-> remaining_limit,
         eligible         |-> ~exceeded_limit /\ min_spend_met,
         reason           |-> IF exceeded_limit
                              THEN <<"Exceeds reward limit", remaining_limit[1]>>
                              ELSE IF ~min_spend_met
                              THEN <<"Min spend not met", card.min_spend[1] - cycle_total>>
                              ELSE <<"Eligible">>]

\* db.rs 231-262: eligibility, reason and the CardRecommendation pushed.
Decide(card, amount, miles_this_txn, cycle_total, remaining_limit) ==
    LET exceeded_limit == IF remaining_limit = None THEN FALSE
                          ELSE amount > remaining_limit[1]
        min_spend_met  == IF card.min_spend = None THEN TRUE
                          ELSE cycle_total >= card.min_spend[1]
    IN  [card_name        |-> card.name,
         miles_per_dollar |-> card.miles_per_dollar,
         block_size       |-> card.block_size,
         effective_rate   |-> EffectiveRate(card)[1],
         miles_earned     |-> miles_this_txn,
         remaining_limit  |-> remaining_limit,
         eligible         |-> ~exceeded_limit /\ min_spend_met,
         reason           |-> IF exceeded_limit
                              THEN <<"Exceeds reward limit", remaining_limit[1]>>
                              ELSE IF ~min_spend_met
                              THEN <<"Min spend not met", card.min_spend[1] - cycle_total>>
                              ELSE <<"Eligible">>]

\* db.rs 229, given the cycle total.
RecommendGiven(card, amount, cycle_total) ==
    Decide(card, amount,
           calculate_miles(amount, card.block_size, card.miles_per_dollar),
           cycle_total,
           RemainingLimit(card.max_reward_limit, cycle_total))

\* The body of the loop over the candidates (db.rs 217-263).
Recommend(sp, card, amount, date) ==
    RecommendGiven(card, amount,
        CycleTotal(sp, card.id, cycle_start_date(card.statement_renewal_date, date)))

\* The comparator without its first key: by effective rate only.
SortsBefore_rateonly(a, b) == RateLT(b.effective_rate, a.effective_rate)

\* The comparator of results.sort_by: a sorts before b.
SortsBefore(a, b) ==
    \/ a.eligible /\ ~b.eligible
    \/ a.eligible = b.eligible /\ RateLT(b.effective_rate, a.effective_rate)

RECURSIVE InsertStable(_, _)
\* x goes after every element that does not sort after it.
InsertStable(sorted, x) ==
    IF Len(sorted) = 0 THEN <<x>>
    ELSE IF SortsBefore(x, sorted[Len(sorted)])
         THEN Append(InsertStable(SubSeq(sorted, 1, Len(sorted) - 1), x),
                     sorted[Len(sorted)])
         ELSE Append(sorted, x)

RECURSIVE StableSort(_)
\* Vec::sort_by: a stable sort.
StableSort(s) ==
    IF Len(s) = 0 THEN <<>>
    ELSE InsertStable(StableSort(SubSeq(s, 1, Len(s) - 1)), s[Len(s)])

----------------------------------------------------------------------------
(* The proleptic Gregorian calendar, stated directly (not the code's          *)
(* arithmetic): what the properties below compare the code against.          *)

IsLeap(y) == (y % 4 = 0 /\ y % 100 # 0) \/ y % 400 = 0

DaysInMonth(y, m) ==
    IF m = 2 THEN (IF IsLeap(y) THEN 29 ELSE 28)
    ELSE IF m \in {4, 6, 9, 11} THEN 30 ELSE 31

ValidDate(dt) == dt[2] \in 1..12 /\ dt[3] >= 1 /\ dt[3] <= DaysInMonth(dt[1], dt[2])

NextDay(dt) ==
    IF dt[3] < DaysInMonth(dt[1], dt[2]) THEN <<dt[1], dt[2], dt[3] + 1>>
    ELSE IF dt[2] < 12 THEN <<dt[1], dt[2] + 1, 1>>
    ELSE <<dt[1] + 1, 1, 1>>

PrevDay(dt) ==
    IF dt[3] > 1 THEN <<dt[1], dt[2], dt[3] - 1>>
    ELSE IF dt[2] > 1 THEN <<dt[1], dt[2] - 1, DaysInMonth(dt[1], dt[2] - 1)>>
    ELSE <<dt[1] - 1, 12, 31>>

\* The month before (year, month), December of the year before for January.
PrevMonth(y, m) == IF m = 1 THEN <<y - 1, 12>> ELSE <<y, m - 1>>

NextMonth(y, m) == IF m = 12 THEN <<y + 1, 1>> ELSE <<y, m + 1>>

\* Chronological order on (year, month, day).
DateLT(a, b) ==
    \/ a[1] < b[1]
    \/ a[1] = b[1] /\ a[2] < b[2]
    \/ a[1] = b[1] /\ a[2] = b[2] /\ a[3] < b[3]

DateLE(a, b) == a = b \/ DateLT(a, b)

\* Days from 0000-12-31 to the end of year y (floor division, any sign of y).
DaysToEndOfYear(y) == 365 * y + (y \div 4) - (y \div 100) + (y \div 400)

RECURSIVE DaysBeforeMonth(_, _)
DaysBeforeMonth(y, m) ==
    IF m = 1 THEN 0 ELSE DaysBeforeMonth(y, m - 1) + DaysInMonth(y, m - 1)

\* Day count of a date, by counting years, months and days.
RataDie(dt) == DaysToEndOfYear(dt[1] - 1) + DaysBeforeMonth(dt[1], dt[2]) + dt[3]

\* Days since 1970-01-01.
EpochDay(dt) == RataDie(dt) - RataDie(<<1970, 1, 1>>)

\* Weekday with Monday = 0 ... Sunday = 6; 0001-01-01 (RataDie 1) was a Monday.
Weekday(dt) == (RataDie(dt) - 1) % 7

\* The text of a (year, month, day) triple read back as numbers.
ParseDate(s) ==
    LET parts == SplitDash(s, <<>>)
    IN  <<ParseI32(parts[1]), ParseI32(parts[2]), ParseI32(parts[3])>>

----------------------------------------------------------------------------
(* Inputs of the calendar functions *)

AnchorYears == {-400, -1, 1900, 1970, 2000, 2025}

Years == UNION {(a - YearSpan)..(a + YearSpan) : a \in AnchorYears}

\* Reference dates of cycle_start_date: four-digit years, as the CLI takes them.
CycleYears == (2025 - YearSpan)..(2025 + YearSpan)

Dates == {dt \in Years \X (1..12) \X (1..31) : ValidDate(dt)}

RenewalDays == 1..31

CalInput(dt) ==
    [pc |-> "input", date |-> dt, r |-> 0, days |-> 0, ymd |-> <<0, 0, 0>>,
     ymd2 |-> <<0, 0, 0>>, dow |-> 0, text |-> <<>>]

CalIdle == [CalInput(<<1970, 1, 1>>) EXCEPT !.pc = "idle"]

----------------------------------------------------------------------------
(* The calendar functions applied to an input date *)

YmdToDays ==
    /\ cal.pc = "input"
    /\ cal' = [cal EXCEPT !.pc = "days",
                          !.days = ymd_to_days(cal.date[1], cal.date[2], cal.date[3])]
    /\ UNCHANGED storeVars

DaysToYmd ==
    /\ cal.pc = "days"
    /\ cal' = [cal EXCEPT !.pc = "ymd", !.ymd = days_to_ymd(cal.days)]
    /\ UNCHANGED storeVars

DayOfWeek ==
    /\ cal.pc = "input"
    /\ cal' = [cal EXCEPT !.pc = "dow",
                          !.dow = day_of_week(cal.date[1], cal.date[2], cal.date[3])]
    /\ UNCHANGED storeVars

AdjustForWeekend ==
    /\ cal.pc = "input"
    /\ cal' = [cal EXCEPT !.pc = "adj",
                          !.ymd = adjust_for_weekend(cal.date[1], cal.date[2], cal.date[3])]
    /\ UNCHANGED storeVars

AdjustAgain ==
    /\ cal.pc = "adj"
    /\ cal' = [cal EXCEPT !.pc = "adj2",
                          !.ymd2 = adjust_for_weekend(cal.ymd[1], cal.ymd[2], cal.ymd[3])]
    /\ UNCHANGED storeVars

CycleStartDate ==
    /\ cal.pc = "input"
    /\ cal.date[1] \in CycleYears
    /\ \E r \in RenewalDays :
         cal' = [cal EXCEPT !.pc = "cycle", !.r = r,
                   !.text = cycle_start_date(r, FormatDate(cal.date[1], cal.date[2], cal.date[3]))]
    /\ UNCHANGED storeVars

InitCal ==
    /\ cal \in {CalInput(dt) : dt \in Dates}
    /\ cards = {}
    /\ spending = {}
    /\ nextCardId = 1
    /\ nextSpendId = 1
    /\ last = NoCall
    /\ conc = ConcIdle(FALSE, 1)

NextCal ==
    \/ YmdToDays
    \/ DaysToYmd
    \/ DayOfWeek
    \/ AdjustForWeekend
    \/ AdjustAgain
    \/ CycleStartDate

SpecCal == InitCal /\ [][NextCal]_vars

----------------------------------------------------------------------------
(* Inputs of the store operations *)

\* "dining", "Dining", "travel", "Travel", "contactless", "Contactless", "online"
dining == <<100, 105, 110, 105, 110, 103>>

Dining == <<68, 105, 110, 105, 110, 103>>

travel == <<116, 114, 97, 118, 101, 108>>

Travel == <<84, 114, 97, 118, 101, 108>>

contactless == <<99, 111, 110, 116, 97, 99, 116, 108, 101, 115, 115>>

Contactless == <<67, 111, 110, 116, 97, 99, 116, 108, 101, 115, 115>>

online == <<111, 110, 108, 105, 110, 101>>

\* The arguments of add_card.  Money counts half dollars: block_size 10 is
\* 5.0, max_reward_limit 200 is 100.0.  add_card validates nothing, so a zero
\* or negative block size and a renewal day outside 1..31 are inputs too.
\* Card A's limit of 93.0 leaves 3.0 after a record of 90.0: an amount of 3.0
\* is then equal to what remains.  Its block of 50.0 is more than 42.50, and
\* 90.0 is one block and a part of the next.  Card B's minimum of 132.50 is
\* met exactly by records of 90.0 and 42.50.
CardConfigs ==
    { [name |-> "A", categories |-> <<Dining, dining>>,
       payment_categories |-> <<contactless>>,
       miles_per_dollar |-> 200, block_size |-> 100, statement_renewal_date |-> 1,
       max_reward_limit |-> Some(186), min_spend |-> None],
      [name |-> "B", categories |-> <<dining, travel>>,
       payment_categories |-> <<Contactless, online>>,
       miles_per_dollar |-> 10, block_size |-> 10, statement_renewal_date |-> 15,
       max_reward_limit |-> None, min_spend |-> Some(265)],
      [name |-> "C", categories |-> <<travel>>,
       payment_categories |-> <<online>>,
       miles_per_dollar |-> 3, block_size |-> 2, statement_renewal_date |-> 15,
       max_reward_limit |-> Some(200), min_spend |-> Some(200)],
      [name |-> "Z", categories |-> <<dining>>,
       payment_categories |-> <<contactless>>,
       miles_per_dollar |-> 3, block_size |-> 0, statement_renewal_date |-> 15,
       max_reward_limit |-> None, min_spend |-> None],
      [name |-> "N", categories |-> <<dining>>,
       payment_categories |-> <<online>>,
       miles_per_dollar |-> 2, block_size |-> -2, statement_renewal_date |-> 0,
       max_reward_limit |-> None, min_spend |-> None] }

\* Card ids a caller may name: every id ever given out, and one never given out.
CardIds == 1..(MaxCards + 1)

\* 42.50 and 90.0
SpendingAmounts == {85, 180}

SpendingCategories == {dining}

SpendingDates == {FormatDate(2026, 2, 12), FormatDate(2026, 2, 13)}

QueryCategories == {dining, Travel}

QueryPayments == {contactless, online}

\* 3.0 and 42.50
QueryAmounts == {6, 85}

QueryDates == {FormatDate(2026, 2, 19)}

----------------------------------------------------------------------------
(* Store operations, statement by statement.                                 *)
(*                                                                           *)
(* Every run of the program opens the same file cc_tracker.db (db.rs 34) and *)
(* makes one call.  No function opens a transaction: each SQL statement      *)
(* commits by itself, and a statement of another client may run between two  *)
(* statements of a call.  A step below is one statement together with the    *)
(* local computation that follows it up to the next statement or the return. *)
(* `last` is what the step returned to its caller: NoCall when the call goes *)
(* on, the Result when the call ends with this step.                         *)

\* The calls that are between two of their statements.
InFlight ==
    (IF conc.spend = <<>> THEN 0 ELSE 1)
    + (IF conc.remove = <<>> THEN 0 ELSE 1)
    + (IF conc.query = <<>> THEN 0 ELSE 1)

\* A client is free to make a call.
ClientFree == InFlight < conc.clients

\* add_card (db.rs 41-61): one INSERT, then last_insert_rowid().
AddCard ==
    /\ ClientFree
    /\ nextCardId <= MaxCards
    /\ \E cfg \in CardConfigs :
         /\ cards' = cards \cup
              {[id |-> nextCardId, name |-> cfg.name, categories |-> cfg.categories,
                payment_categories |-> cfg.payment_categories,
                miles_per_dollar |-> cfg.miles_per_dollar,
                block_size |-> cfg.block_size,
                statement_renewal_date |-> cfg.statement_renewal_date,
                max_reward_limit |-> cfg.max_reward_limit,
                min_spend |-> cfg.min_spend]}
         /\ last' = Call("add_card", <<cfg>>, TRUE, nextCardId)
    /\ nextCardId' = nextCardId + 1
    /\ UNCHANGED <<spending, nextSpendId, cal, conc>>

\* An add_spending that goes on with the rate and block size of no card when
\* its lookup finds no row.
SpendingLookup_nolookup ==
    /\ ClientFree
    /\ conc.spend = <<>>
    /\ nextSpendId <= MaxSpending
    /\ \E card_id \in CardIds, amount \in SpendingAmounts,
          category \in SpendingCategories, date \in SpendingDates :
         LET found == {c \in cards : c.id = card_id}
         IN  conc' = [conc EXCEPT !.spend =
                         IF found = {}
                         THEN <<card_id, amount, category, date, 0, 1>>
                         ELSE <<card_id, amount, category, date,
                                (CHOOSE c \in found : TRUE).miles_per_dollar,
                                (CHOOSE c \in found : TRUE).block_size>>]
    /\ last' = NoCall
    /\ UNCHANGED <<cards, spending, nextCardId, nextSpendId, cal>>

\* add_spending, first statement (db.rs 289-293): SELECT miles_per_dollar,
\* block_size of the card; no row is an error and the call ends.
SpendingLookup ==
    /\ ClientFree
    /\ conc.spend = <<>>
    /\ nextSpendId <= MaxSpending
    /\ \E card_id \in CardIds, amount \in SpendingAmounts,
          category \in SpendingCategories, date \in SpendingDates :
         LET found == {c \in cards : c.id = card_id}
         IN  IF found = {}
             THEN /\ last' = Call("add_spending", <<card_id, amount, category, date>>,
                                  FALSE, <<>>)
                  /\ UNCHANGED conc
             ELSE LET card == CHOOSE c \in found : TRUE
                  IN  /\ conc' = [conc EXCEPT !.spend =
                                     <<card_id, amount, category, date,
                                       card.miles_per_dollar, card.block_size>>]
                      /\ last' = NoCall
    /\ UNCHANGED <<cards, spending, nextCardId, nextSpendId, cal>>

\* add_spending, calculate_miles and the second statement (db.rs 295-303):
\* INSERT INTO spending, then last_insert_rowid().  The INSERT fails on NOT NULL
\* for NaN miles (bound as NULL) and, with foreign keys enforced, when no card
\* has the id.
SpendingInsert ==
    /\ conc.spend # <<>>
    /\ LET a == conc.spend
           args == <<a[1], a[2], a[3], a[4]>>
           miles_earned == calculate_miles(a[2], a[6], a[5])
       IN  IF miles_earned = NaN
              \/ (conc.foreign_keys /\ \A c \in cards : c.id # a[1])
           THEN /\ last' = Call("add_spending", args, FALSE, <<>>)
                /\ UNCHANGED <<spending, nextSpendId>>
           ELSE /\ spending' = spending \cup
                      {[id |-> nextSpendId, card_id |-> a[1], amount |-> a[2],
                        category |-> a[3], date |-> a[4], miles_earned |-> miles_earned]}
                /\ nextSpendId' = nextSpendId + 1
                /\ last' = Call("add_spending", args, TRUE, <<nextSpendId, miles_earned>>)
    /\ conc' = [conc EXCEPT !.spend = <<>>]
    /\ UNCHANGED <<cards, nextCardId, cal>>

\* A remove_card whose first statement deletes no record.
DeleteSpending_none ==
    /\ ClientFree
    /\ conc.remove = <<>>
    /\ \E id \in CardIds :
         conc' = [conc EXCEPT !.remove = <<id>>]
    /\ last' = NoCall
    /\ UNCHANGED <<cards, spending, nextCardId, nextSpendId, cal>>

\* remove_card, first statement (db.rs 93): DELETE FROM spending WHERE card_id.
DeleteSpending ==
    /\ ClientFree
    /\ conc.remove = <<>>
    /\ \E id \in CardIds :
         /\ spending' = {r \in spending : r.card_id # id}
         /\ conc' = [conc EXCEPT !.remove = <<id>>]
    /\ last' = NoCall
    /\ UNCHANGED <<cards, nextCardId, nextSpendId, cal>>

\* remove_card, second statement (db.rs 94-95): DELETE FROM cards WHERE id,
\* then changed > 0.  With foreign keys enforced the DELETE fails while a
\* spending record names the card.
DeleteCard ==
    /\ conc.remove # <<>>
    /\ LET id == conc.remove[1]
       IN  IF conc.foreign_keys /\ \E r \in spending : r.card_id = id
           THEN /\ last' = Call("remove_card", <<id>>, FALSE, <<>>)
                /\ UNCHANGED cards
           ELSE /\ cards' = {c \in cards : c.id # id}
                /\ last' = Call("remove_card", <<id>>, TRUE, \E c \in cards : c.id = id)
    /\ conc' = [conc EXCEPT !.remove = <<>>]
    /\ UNCHANGED <<spending, nextCardId, nextSpendId, cal>>

\* best_card_for_category, first statement (db.rs 178-215): the candidate
\* SELECT and the reading of its rows.  A row whose effective_rate is NULL
\* cannot be read as f64 and the call returns that error; with no row the loop
\* and the sort have nothing to do and the call returns the empty list.
BestCardCandidates ==
    /\ ClientFree
    /\ conc.query = <<>>
    /\ \E category \in QueryCategories, amount \in QueryAmounts,
          payment_category \in QueryPayments, date \in QueryDates :
        \E rows \in CandidateOrders(cards, category, payment_category) :
          LET args == <<category, amount, payment_category, date>>
          IN  IF \E i \in DOMAIN rows : EffectiveRate(rows[i]) = None
              THEN /\ last' = Call("best_card", args, FALSE, <<>>)
                   /\ UNCHANGED conc
              ELSE IF Len(rows) = 0
              THEN /\ last' = Call("best_card", args, TRUE, <<>>)
                   /\ UNCHANGED conc
              ELSE /\ conc' = [conc EXCEPT !.query =
                                  [args |-> args, rows |-> rows, results |-> <<>>]]
                   /\ last' = NoCall
    /\ UNCHANGED <<cards, spending, nextCardId, nextSpendId, cal>>

\* A loop body that also records the prospective transaction on the candidate.
BestCardCycleTotal_records ==
    /\ conc.query # <<>>
    /\ LET q       == conc.query
           row     == q.rows[Len(q.results) + 1]
           rec     == Recommend(spending, row, q.args[2], q.args[4])
           results == Append(q.results, rec)
       IN  /\ spending' = spending \cup
                  {[id |-> nextSpendId, card_id |-> row.id, amount |-> q.args[2],
                    category |-> q.args[1], date |-> q.args[4],
                    miles_earned |-> rec.miles_earned]}
           /\ IF Len(results) = Len(q.rows)
              THEN /\ last' = Call("best_card", q.args, TRUE, StableSort(results))
                   /\ conc' = [conc EXCEPT !.query = <<>>]
              ELSE /\ conc' = [conc EXCEPT !.query = [q EXCEPT !.results = results]]
                   /\ last' = NoCall
    /\ nextSpendId' = nextSpendId + 1
    /\ UNCHANGED <<cards, nextCardId, cal>>

\* best_card_for_category, the loop body for the next candidate (db.rs
\* 217-263): its cycle-total SELECT and the recommendation pushed; after the
\* last candidate the sort and the return (db.rs 265-271).
BestCardCycleTotal ==
    /\ conc.query # <<>>
    /\ LET q       == conc.query
           results == Append(q.results,
                             Recommend(spending, q.rows[Len(q.results) + 1],
                                       q.args[2], q.args[4]))
       IN  IF Len(results) = Len(q.rows)
           THEN /\ last' = Call("best_card", q.args, TRUE, StableSort(results))
                /\ conc' = [conc EXCEPT !.query = <<>>]
           ELSE /\ conc' = [conc EXCEPT !.query = [q EXCEPT !.results = results]]
                /\ last' = NoCall
    /\ UNCHANGED <<cards, spending, nextCardId, nextSpendId, cal>>

\* best_card_for_category when the storage collaborator fails the candidate
\* SELECT (db.rs 189, 200, 215): `?` returns the error.  The fifth argument
\* recorded is the number of the failing storage call.
BestCardCandidatesFail ==
    /\ ClientFree
    /\ conc.query = <<>>
    /\ \E category \in QueryCategories, amount \in QueryAmounts,
          payment_category \in QueryPayments, date \in QueryDates :
         last' = Call("best_card_storage_failure",
                      <<category, amount, payment_category, date, 1>>, FALSE, <<>>)
    /\ UNCHANGED <<cards, spending, nextCardId, nextSpendId, cal, conc>>

\* A failing call that returned the recommendations built so far.
BestCardCycleTotalFail_partial ==
    /\ conc.query # <<>>
    /\ LET q == conc.query
       IN  last' = Call("best_card_storage_failure",
                        Append(q.args, Len(q.results) + 2), TRUE, StableSort(q.results))
    /\ conc' = [conc EXCEPT !.query = <<>>]
    /\ UNCHANGED <<cards, spending, nextCardId, nextSpendId, cal>>

\* best_card_for_category when the storage collaborator fails the cycle-total
\* SELECT of the next candidate (db.rs 222-227): `?` returns the error and the
\* recommendations pushed so far are dropped with the call's frame.
BestCardCycleTotalFail ==
    /\ conc.query # <<>>
    /\ LET q == conc.query
       IN  last' = Call("best_card_storage_failure",
                        Append(q.args, Len(q.results) + 2), FALSE, <<>>)
    /\ conc' = [conc EXCEPT !.query = <<>>]
    /\ UNCHANGED <<cards, spending, nextCardId, nextSpendId, cal>>

\* The empty database of init_db (db.rs 33-37), nothing in flight.  Whether
\* SQLite enforces foreign keys is decided by its build, which the sources do
\* not fix: either.
Init ==
    /\ cal = CalIdle
    /\ cards = {}
    /\ spending = {}
    /\ nextCardId = 1
    /\ nextSpendId = 1
    /\ last = NoCall
    /\ conc \in {ConcIdle(fk, Clients) : fk \in BOOLEAN}

Next ==
    \/ AddCard
    \/ SpendingLookup
    \/ SpendingInsert
    \/ DeleteSpending
    \/ DeleteCard
    \/ BestCardCandidates
    \/ BestCardCycleTotal

Spec == Init /\ [][Next]_vars

\* Cards and records being added while best_card_for_category runs over a
\* storage collaborator whose calls may fail.
NextFailure ==
    \/ AddCard
    \/ SpendingLookup
    \/ SpendingInsert
    \/ BestCardCandidates
    \/ BestCardCycleTotal
    \/ BestCardCandidatesFail
    \/ BestCardCycleTotalFail

SpecFailure == Init /\ [][NextFailure]_vars

\* The calls that write the store.
NextConc ==
    \/ AddCard
    \/ SpendingLookup
    \/ SpendingInsert
    \/ DeleteSpending
    \/ DeleteCard

SpecConc == Init /\ [][NextConc]_vars

\* One client: every call runs to completion before the next one starts.
InitSeq ==
    /\ cal = CalIdle
    /\ cards = {}
    /\ spending = {}
    /\ nextCardId = 1
    /\ nextSpendId = 1
    /\ last = NoCall
    /\ conc \in {ConcIdle(fk, 1) : fk \in BOOLEAN}

SpecSeq == InitSeq /\ [][NextConc]_vars

----------------------------------------------------------------------------
(* Properties of the calendar module and the cycle resolver (SpecCal) *)

\* The reference date of the last cycle_start_date call, and its result.
CycleRef == cal.date

CycleResult == ParseDate(cal.text)

\* The months around the reference month: the one before, itself, the one after.
MonthsAround(y, m) == {PrevMonth(y, m), <<y, m>>, NextMonth(y, m)}

\* C1: for a renewal day 1..28, cycle_start_date returns the start of the cycle
\* that contains the reference date: the result is on or before the reference
\* date and no weekend-adjusted renewal date lies after the result and on or
\* before the reference date.
C1_CycleContainsReference ==
    (cal.pc = "cycle" /\ cal.r \in 1..28) =>
        /\ DateLE(CycleResult, CycleRef)
        /\ \A ym \in MonthsAround(CycleRef[1], CycleRef[2]) :
             LET a == adjust_for_weekend(ym[1], ym[2], cal.r)
             IN  ~(DateLT(CycleResult, a) /\ DateLE(a, CycleRef))

\* The renewal day is a day of the reference month and of the month before it.
RenewalDayValid ==
    LET pm == PrevMonth(CycleRef[1], CycleRef[2])
    IN  /\ cal.r <= DaysInMonth(CycleRef[1], CycleRef[2])
        /\ cal.r <= DaysInMonth(pm[1], pm[2])

\* C2: when the renewal day is a valid day of the reference month and of the
\* month before it, the date cycle_start_date returns is never a Saturday or
\* a Sunday.
C2_CycleStartNeverWeekend ==
    (cal.pc = "cycle" /\ RenewalDayValid) => Weekday(CycleResult) \in 0..4

\* A renewal day that falls on a Saturday and was moved to the Friday before.
C2_Witness ==
    /\ cal.pc = "cycle"
    /\ RenewalDayValid
    /\ Weekday(<<CycleRef[1], CycleRef[2], cal.r>>) = 5
    /\ CycleRef[3] >= cal.r
    /\ Weekday(CycleResult) = 4
    /\ CycleResult = PrevDay(<<CycleRef[1], CycleRef[2], cal.r>>)

\* The result the two-branch rule of the resolver prescribes.
CycleRule(r, ref) ==
    LET a  == adjust_for_weekend(ref[1], ref[2], r)
        pm == PrevMonth(ref[1], ref[2])
    IN  IF <<a[1], a[2]>> = <<ref[1], ref[2]>> /\ ref[3] >= a[3]
        THEN a
        ELSE adjust_for_weekend(pm[1], pm[2], r)

\* C3: cycle_start_date(r, ref) is the weekend-adjusted day r of ref's month
\* when that date is still in ref's month and ref's day is on or after it, and
\* the weekend-adjusted day r of the preceding month in every other case;
\* (15, 2026-02-19) gives 2026-02-13 and (1, 2026-03-05) gives 2026-01-30.
C3_CycleStartRule ==
    cal.pc = "cycle" =>
        /\ CycleResult = CycleRule(cal.r, CycleRef)
        /\ (cal.r = 15 /\ CycleRef = <<2026, 2, 19>>) =>
               cal.text = <<50, 48, 50, 54, 45, 48, 50, 45, 49, 51>>
        /\ (cal.r = 1 /\ CycleRef = <<2026, 3, 5>>) =>
               cal.text = <<50, 48, 50, 54, 45, 48, 49, 45, 51, 48>>

\* The renewal day was moved into the month before, so the cycle of the month
\* before is returned.
C3_Witness ==
    /\ cal.pc = "cycle"
    /\ cal.r = 1
    /\ CycleRef = <<2026, 3, 5>>
    /\ CycleResult = <<2026, 1, 30>>

\* C4: days_to_ymd(ymd_to_days(d)) = d for every valid date d, leap days and
\* years below 1 included.
C4_RoundTrip ==
    cal.pc = "ymd" => (cal.ymd = cal.date /\ cal.days = EpochDay(cal.date))

\* The leap day of year -400, far before the epoch.
C4_Witness ==
    /\ cal.pc = "ymd"
    /\ cal.date = <<-400, 2, 29>>
    /\ cal.days < 0
    /\ cal.ymd = cal.date

\* C5: day_of_week is in 0..6 with Monday = 0 and Sunday = 6, also before
\* 1970-01-01; it is the same for d and for the round trip of d, and the day
\* after d has weekday (day_of_week(d) + 1) mod 7.
C5_DayOfWeek ==
    cal.pc = "dow" =>
        LET d  == cal.date
            rt == days_to_ymd(ymd_to_days(d[1], d[2], d[3]))
            nx == NextDay(d)
        IN  /\ cal.dow \in 0..6
            /\ cal.dow = Weekday(d)
            /\ day_of_week(rt[1], rt[2], rt[3]) = cal.dow
            /\ day_of_week(nx[1], nx[2], nx[3]) = (cal.dow + 1) % 7

\* A Sunday whose day number is negative.
C5_Witness ==
    /\ cal.pc = "dow"
    /\ ymd_to_days(cal.date[1], cal.date[2], cal.date[3]) < 0
    /\ cal.dow = 6
    /\ cal.date = <<1969, 12, 28>>

\* C6: adjust_for_weekend applied twice equals adjust_for_weekend applied once.
C6_AdjustIdempotent ==
    cal.pc = "adj2" => cal.ymd2 = cal.ymd

\* A Sunday: the first application moved it, the second left the Friday alone.
C6_Witness ==
    /\ cal.pc = "adj2"
    /\ Weekday(cal.date) = 6
    /\ cal.ymd # cal.date
    /\ cal.ymd2 = cal.ymd

\* The Friday before a Saturday or Sunday, and the date itself otherwise.
PrecedingFriday(dt) ==
    IF Weekday(dt) = 5 THEN PrevDay(dt)
    ELSE IF Weekday(dt) = 6 THEN PrevDay(PrevDay(dt))
    ELSE dt

\* C7: adjust_for_weekend returns d unchanged on Monday..Friday, the day before
\* a Saturday and two days before a Sunday, also across a month or year start;
\* the result of a weekend date is a Friday.
C7_AdjustForWeekend ==
    cal.pc = "adj" =>
        /\ cal.ymd = PrecedingFriday(cal.date)
        /\ Weekday(cal.date) >= 5 => Weekday(cal.ymd) = 4

\* A weekend date at the start of a year, moved into the year before.
C7_Witness ==
    /\ cal.pc = "adj"
    /\ Weekday(cal.date) \in {5, 6}
    /\ cal.ymd[1] = cal.date[1] - 1
    /\ cal.ymd[2] = 12

----------------------------------------------------------------------------
(* Properties of the recommendation engine and the store (Spec) *)

\* The last call was best_card_for_category, and these were its arguments.
BestCardCalled == last.op = "best_card"

QCategory == last.args[1]

QAmount == last.args[2]

QPayment == last.args[3]

QDate == last.args[4]

\* Two bytes that are the same letter in either case, or the same byte.
SameLetter(x, y) ==
    \/ x = y
    \/ x \in 65..90 /\ y = x + 32
    \/ y \in 65..90 /\ x = y + 32

\* Two labels that differ at most in the case of their letters.
SameIgnoringCase(a, b) ==
    Len(a) = Len(b) /\ \A i \in 1..Len(a) : SameLetter(a[i], b[i])

\* The card accepts the category and the payment category of the query.
Qualifies(c) ==
    /\ \E i \in 1..Len(c.categories) : SameIgnoringCase(c.categories[i], QCategory)
    /\ \E i \in 1..Len(c.payment_categories) :
           SameIgnoringCase(c.payment_categories[i], QPayment)

QualifyingCards == {c \in cards : Qualifies(c)}

\* How many recommendations of the returned list carry the value v under f.
CountRecs(f(_), v) == Cardinality({i \in 1..Len(last.val) : f(last.val[i]) = v})

\* How many qualifying cards carry the value v under f.
CountCards(f(_), v) == Cardinality({c \in QualifyingCards : f(c) = v})

\* The number of whole blocks in a non-negative amount, block > 0.
WholeBlocks(amount, block) ==
    CHOOSE k \in 0..amount : k * block <= amount /\ amount < (k + 1) * block

\* The miles reported by a returned list are whole blocks times the rate.
MilesReported ==
    (BestCardCalled /\ last.ok) =>
        \A i \in 1..Len(last.val) :
            LET rec == last.val[i]
            IN  /\ rec.block_size > 0 =>
                      rec.miles_earned =
                          Num(WholeBlocks(QAmount, rec.block_size) * rec.miles_per_dollar)
                /\ (rec.block_size = 10 /\ rec.miles_per_dollar = 10 /\ QAmount = 85) =>
                      rec.miles_earned = Num(80)
                /\ (rec.block_size = 10 /\ rec.miles_per_dollar = 10 /\ QAmount = 6) =>
                      rec.miles_earned = Num(0)

\* add_spending reads the rate and the block size of the card it names, and
\* the record it then stores and the miles it returns are whole blocks of its
\* amount times that rate.
MilesStored ==
    /\ (conc.spend = <<>> /\ conc'.spend # <<>>) =>
          \E c \in cards :
              /\ c.id = conc'.spend[1]
              /\ c.miles_per_dollar = conc'.spend[5]
              /\ c.block_size = conc'.spend[6]
    /\ (conc.spend # <<>> /\ conc'.spend = <<>> /\ last'.ok) =>
          LET a == conc.spend
          IN  /\ last'.op = "add_spending"
              /\ spending' = spending \cup
                    {[id |-> last'.val[1], card_id |-> a[1], amount |-> a[2],
                      category |-> a[3], date |-> a[4], miles_earned |-> last'.val[2]]}
              /\ \A r \in spending : r.id # last'.val[1]
              /\ a[6] > 0 => last'.val[2] = Num(WholeBlocks(a[2], a[6]) * a[5])
              /\ (a[6] = 10 /\ a[5] = 10 /\ a[2] = 85) => last'.val[2] = Num(80)
              /\ (a[6] > a[2]) => last'.val[2] = Num(0)

\* C8: for a card with a positive block size, the miles_earned that
\* best_card_for_category reports and that add_spending returns and stores are
\* floor(amount / block_size) * miles_per_dollar: 42.50 at 10 per 5.0 gives 80,
\* 3.0 gives 0.
C8_MilesEarned == []MilesReported /\ [][MilesStored]_vars

\* 42.50 on a card of 10 miles per 5.0 is reported as 80 miles, while the
\* store holds what add_spending recorded for 42.50 on such a card, 80 miles
\* for 8.5 blocks, and for 42.50 on a card with a block of 50.0, no miles.
C8_Witness ==
    /\ BestCardCalled /\ last.ok
    /\ QAmount = 85
    /\ \E i \in 1..Len(last.val) :
          /\ last.val[i].block_size = 10
          /\ last.val[i].miles_per_dollar = 10
          /\ last.val[i].miles_earned = Num(80)
    /\ \E r \in spending, c \in cards :
          /\ r.card_id = c.id
          /\ c.block_size = 10 /\ c.miles_per_dollar = 10
          /\ r.amount = 85 /\ r.miles_earned = Num(80)
    /\ \E r \in spending, c \in cards :
          /\ r.card_id = c.id /\ c.block_size > r.amount
          /\ r.amount = 85 /\ r.miles_earned = Num(0)

CardName(c) == c.name

RecName(rec) == rec.card_name

\* The list holds one recommendation per qualifying card and no other.
OnePerQualifyingCard ==
    /\ Len(last.val) = Cardinality(QualifyingCards)
    /\ \A c \in QualifyingCards : CountRecs(RecName, c.name) = CountCards(CardName, c.name)

\* C9: best_card_for_category returns exactly one recommendation for each stored
\* card whose category list contains the category and whose payment-category
\* list contains the payment category (case-insensitively), eligible or not,
\* and none for any other card; with no qualifying card it returns an empty
\* list, not an error.
C9_OnePerQualifyingCard ==
    BestCardCalled => (last.ok /\ OnePerQualifyingCard)

RECURSIVE TotalUpTo(_, _)
\* The sum of the amounts of the records of rs with ids 1..n.
TotalUpTo(rs, n) ==
    IF n = 0 THEN 0
    ELSE TotalUpTo(rs, n - 1)
         + (IF \E r \in rs : r.id = n THEN (CHOOSE r \in rs : r.id = n).amount ELSE 0)

\* The records of card c in sp dated on or after the start of the cycle that
\* holds the date, by calendar.
RecordsInCycle(sp, c, date) ==
    LET start == ParseDate(cycle_start_date(c.statement_renewal_date, date))
    IN  {r \in sp : r.card_id = c.id /\ DateLE(start, ParseDate(r.date))}

\* The card's recorded spend of the cycle that holds the date.
CycleSpend(sp, c, date) == TotalUpTo(RecordsInCycle(sp, c, date), nextSpendId - 1)

\* max(0, limit - cycleTotal), absent without a limit.
ExpectedRemaining(sp, c, date) ==
    IF c.max_reward_limit = None THEN None
    ELSE LET left == c.max_reward_limit[1] - CycleSpend(sp, c, date)
         IN  Some(IF left > 0 THEN left ELSE 0)

RecRemaining(rec) == <<rec.card_name, rec.remaining_limit>>

\* The call in progress, the candidate whose cycle total is read next, and
\* the number of recommendations pushed so far.
Query == conc.query

Candidate == Query.rows[Len(Query.results) + 1]

\* The step is the cycle-total statement of a best_card_for_category call and
\* its recommendation is pushed (the statement did not fail).
CycleTotalStep ==
    /\ conc.query # <<>>
    /\ conc'.query # conc.query
    /\ last'.op # "best_card_storage_failure"

\* How many elements of the sequence carry the value v under f.
CountIn(s, f(_), v) == Cardinality({i \in 1..Len(s) : f(s[i]) = v})

\* The recommendation pushed by the step carries the value v under f, in the
\* list held by the call or, when the call ends with the step, in the list
\* returned; the recommendations pushed before are kept.
Pushed(f(_), v) ==
    IF conc'.query # <<>>
    THEN /\ conc'.query.results = Append(Query.results,
                                         conc'.query.results[Len(Query.results) + 1])
         /\ f(conc'.query.results[Len(Query.results) + 1]) = v
    ELSE /\ last'.op = "best_card" /\ last'.ok
         /\ Len(last'.val) = Len(Query.results) + 1
         /\ \A i \in 1..Len(last'.val) :
               CountIn(last'.val, f, f(last'.val[i]))
                   = CountIn(Query.results, f, f(last'.val[i]))
                     + (IF f(last'.val[i]) = v THEN 1 ELSE 0)

\* The remaining limit pushed for the candidate is the expected one, on the
\* records stored when its cycle total is read.
RemainingLimitStep ==
    CycleTotalStep =>
        Pushed(RecRemaining,
               <<Candidate.name, ExpectedRemaining(spending, Candidate, Query.args[4])>>)

\* C10: a recommended card's remaining_limit is absent when the card has no
\* max_reward_limit and otherwise max(0, limit - cycleTotal), cycleTotal being
\* the sum of the card's own records dated on or after
\* cycle_start_date(renewal day, transaction date); earlier records, records of
\* other cards and the prospective transaction are not counted.
C10_RemainingLimit == [][RemainingLimitStep]_vars

\* A card with limit 100.0: 90.0 recorded on the first day of its cycle counts,
\* a record of the day before does not, and 10.0 remain.
C10_Witness ==
    /\ BestCardCalled /\ last.ok
    /\ QDate = FormatDate(2026, 2, 19)
    /\ \E c \in QualifyingCards, r1, r2 \in spending :
          /\ c.max_reward_limit = Some(200)
          /\ c.statement_renewal_date = 15
          /\ r1.card_id = c.id /\ r1.date = FormatDate(2026, 2, 13) /\ r1.amount = 180
          /\ r2.card_id = c.id /\ r2.date = FormatDate(2026, 2, 12)
          /\ \E i \in 1..Len(last.val) : RecRemaining(last.val[i]) = <<c.name, Some(20)>>

\* The card has a limit and the amount is more than what remains of it.
OverLimit(sp, c, amount, date) ==
    /\ c.max_reward_limit # None
    /\ amount > ExpectedRemaining(sp, c, date)[1]

\* The card has a minimum and the recorded spend of the cycle is below it;
\* the amount of the transaction plays no part.
UnderMinimum(sp, c, date) ==
    /\ c.min_spend # None
    /\ CycleSpend(sp, c, date) < c.min_spend[1]

\* Eligibility and the reason reported, in priority order.
ExpectedVerdict(sp, c, amount, date) ==
    IF OverLimit(sp, c, amount, date) THEN <<FALSE, "Exceeds reward limit">>
    ELSE IF UnderMinimum(sp, c, date) THEN <<FALSE, "Min spend not met">>
    ELSE <<TRUE, "Eligible">>

RecVerdict(rec) == <<rec.card_name, rec.remaining_limit, <<rec.eligible, rec.reason[1]>>>>

\* The verdict pushed for the candidate is the expected one, on the records
\* stored when its cycle total is read.
EligibilityStep ==
    CycleTotalStep =>
        Pushed(RecVerdict,
               <<Candidate.name, ExpectedRemaining(spending, Candidate, Query.args[4]),
                 ExpectedVerdict(spending, Candidate, Query.args[2], Query.args[4])>>)

\* C11: a recommended card is ineligible with the reward-limit reason exactly
\* when it has a limit and amount > remaining_limit (an amount equal to what
\* remains is eligible); otherwise ineligible with the minimum-spend reason
\* exactly when it has a minimum and the prior recorded spend of the cycle is
\* below it, whatever the amount; otherwise eligible.  When both fail the
\* reason is the reward limit.
C11_Eligibility == [][EligibilityStep]_vars

\* A card with limit 100.0 and minimum 100.0 and 90.0 recorded in the cycle,
\* asked for 42.50: over the limit and under the minimum, reported as the limit.
C11_Witness ==
    /\ BestCardCalled /\ last.ok
    /\ QAmount = 85
    /\ \E c \in QualifyingCards :
          /\ OverLimit(spending, c, QAmount, QDate)
          /\ UnderMinimum(spending, c, QDate)
          /\ CycleSpend(spending, c, QDate) = 180
          /\ \E i \in 1..Len(last.val) :
                RecVerdict(last.val[i]) = <<c.name, Some(20), <<FALSE, "Exceeds reward limit">>>>

\* miles_per_dollar / block_size of a is at most that of b (block sizes not zero).
RecRateLE(a, b) ==
    a.miles_per_dollar * a.block_size * b.block_size * b.block_size
        <= b.miles_per_dollar * b.block_size * a.block_size * a.block_size

\* C12: in every list returned by best_card_for_category every eligible
\* recommendation comes before every ineligible one, and within the eligible
\* and within the ineligible group the effective rate miles_per_dollar /
\* block_size does not increase from first to last.
C12_EligibleFirstThenRate ==
    (BestCardCalled /\ last.ok) =>
        \A i, j \in 1..Len(last.val) :
            i < j =>
                /\ last.val[j].eligible => last.val[i].eligible
                /\ (last.val[i].eligible = last.val[j].eligible) =>
                        RecRateLE(last.val[j], last.val[i])

\* An ineligible card of the higher rate listed after an eligible card of the
\* lower rate, both with a positive block size.
C12_Witness ==
    /\ BestCardCalled /\ last.ok
    /\ \E i, j \in 1..Len(last.val) :
          /\ i < j
          /\ last.val[i].block_size > 0 /\ last.val[j].block_size > 0
          /\ last.val[i].eligible /\ ~last.val[j].eligible
          /\ ~RecRateLE(last.val[j], last.val[i])

\* A card configuration that card creation is to refuse.
InvalidConfig(cfg) ==
    \/ cfg.block_size <= 0
    \/ cfg.statement_renewal_date \notin 1..31

\* C14: a card whose block size is zero or negative, or whose renewal day is
\* outside 1..31, is rejected by add_card, which returns an error and stores
\* nothing: no such card is ever stored.
C14_InvalidCardRejected ==
    /\ \A c \in cards : ~InvalidConfig(c)
    /\ (last.op = "add_card" /\ InvalidConfig(last.args[1])) => ~last.ok

\* Every stored spending record belongs to a stored card.
NoOrphanRecord == \A r \in spending : \E c \in cards : c.id = r.card_id

\* The statements of remove_card(id): the first takes away the records of
\* card id and no other, the second the card, and the call returns Ok.
RemoveCardStep ==
    /\ (conc.remove = <<>> /\ conc'.remove # <<>>) =>
          /\ spending' = {r \in spending : r.card_id # conc'.remove[1]}
          /\ cards' = cards
    /\ (conc.remove # <<>> /\ conc'.remove = <<>>) =>
          /\ last'.op = "remove_card" /\ last'.ok
          /\ last'.args = conc.remove
          /\ spending' = spending
          /\ cards' = {c \in cards : c.id # conc.remove[1]}
          /\ \A r \in spending' : r.card_id # conc.remove[1]

\* C15: after any sequence of add_card, add_spending and remove_card calls that
\* each run to completion, every stored spending record's card_id is the id of
\* a stored card: remove_card(id) deletes the records of card id with the card
\* and leaves the records of every other card in place.
C15_RecordsHaveCards == []NoOrphanRecord /\ [][RemoveCardStep]_vars

\* A card with a record was removed while the record of another card stays.
C15_Witness ==
    /\ last.op = "remove_card" /\ last.val = TRUE
    /\ nextSpendId = 3
    /\ Cardinality(spending) = 1
    /\ \A r \in spending : r.card_id # last.args[1]

\* A statement of best_card_for_category leaves the store as it was.
BestCardStep ==
    (conc'.query # conc.query \/ last'.op = "best_card") =>
        /\ cards' = cards
        /\ spending' = spending
        /\ nextCardId' = nextCardId
        /\ nextSpendId' = nextSpendId

\* C16: best_card_for_category only reads: whether it returns a list or an
\* error, the stored cards and spending records are the same after the call
\* as before, and the prospective transaction is not recorded.
C16_BestCardReadsOnly == [][BestCardStep]_vars

\* The call returned an error over a store that holds cards and records that
\* are still there.
C16_Witness ==
    /\ BestCardCalled /\ ~last.ok
    /\ Cardinality(cards) = 2
    /\ Cardinality(spending) = 2

\* What the statements of remove_card(id) return and do.
RemoveCardResult ==
    /\ (conc.remove = <<>> /\ conc'.remove # <<>>) =>
          ((\A c \in cards : c.id # conc'.remove[1]) =>
               (cards' = cards /\ spending' = spending))
    /\ (conc.remove # <<>> /\ conc'.remove = <<>>) =>
          LET id     == conc.remove[1]
              stored == \E c \in cards : c.id = id
          IN  /\ last'.op = "remove_card"
              /\ last'.ok
              /\ last'.val = stored
              /\ \A c \in cards' : c.id # id
              /\ \A c \in cards : c.id # id => c \in cards'
              /\ ~stored => (cards' = cards /\ spending' = spending)

\* C17: remove_card(id) returns true exactly when a card with that id was
\* stored, and that card is then gone; for an id that is not stored it returns
\* false and leaves all cards and all spending records unchanged.
C17_RemoveCardResult == [][RemoveCardResult]_vars

\* The card id named by the add_spending call that the step starts.
LookupStep == conc.spend = <<>> /\ (conc'.spend # <<>> \/ last'.op = "add_spending")

LookupId == IF conc'.spend # <<>> THEN conc'.spend[1] ELSE last'.args[1]

\* add_spending for a card id that is not stored when the call looks it up.
AddSpendingUnknownCard ==
    (LookupStep /\ \A c \in cards : c.id # LookupId) =>
        /\ last'.op = "add_spending" /\ ~last'.ok
        /\ conc'.spend = <<>>
        /\ cards' = cards
        /\ spending' = spending
        /\ nextSpendId' = nextSpendId

\* C18: add_spending for a card id that is not stored (never added, or already
\* removed) returns an error and stores no spending record; cards and spending
\* records are unchanged.
C18_AddSpendingUnknownCard == [][AddSpendingUnknownCard]_vars

\* add_spending named a card that had been added and removed, and failed at
\* its lookup, while the store holds another card and its record.
C18_Witness ==
    /\ last.op = "add_spending" /\ ~last.ok
    /\ conc.spend = <<>> /\ conc.remove = <<>>
    /\ last.args[1] < nextCardId
    /\ \A c \in cards : c.id # last.args[1]
    /\ cards # {}
    /\ spending # {}
    /\ NoOrphanRecord

\* The remaining_limit best_card_for_category reports for card c, which has a
\* limit, on transaction date d over the records sp.
ReportedRemaining(sp, c, d) ==
    RemainingLimit(c.max_reward_limit,
                   CycleTotal(sp, c.id, cycle_start_date(c.statement_renewal_date, d)))[1]

\* A step of add_spending raises no reported remaining limit, and leaves
\* every card that was over its limit for an amount over it.
AddSpendingLowersRemaining ==
    (last'.op = "add_spending" /\ last'.ok /\ last'.args[2] > 0) =>
        \A c \in cards : c.max_reward_limit # None =>
            \A d \in QueryDates :
                /\ ReportedRemaining(spending', c, d) <= ReportedRemaining(spending, c, d)
                /\ \A a \in QueryAmounts :
                       a > ReportedRemaining(spending, c, d) =>
                           a > ReportedRemaining(spending', c, d)

\* C20: for a fixed transaction date and a stored card with a reward limit,
\* over add_spending calls with positive amounts (to any card, with any dates)
\* the remaining_limit reported for the card never increases: once the card is
\* ineligible for an amount because of its limit, it stays so until removed.
C20_RemainingNeverIncreases == [][AddSpendingLowersRemaining]_vars

\* The second add_spending on a card with limit 100.0 brought what remains on
\* 2026-02-19 from 10.0 to 0.
C20_Witness ==
    /\ last.op = "add_spending" /\ last.ok
    /\ \E c \in cards, r \in spending :
          /\ c.id = last.args[1]
          /\ c.max_reward_limit = Some(200)
          /\ r.id = last.val[1] /\ r.id = 2
          /\ ReportedRemaining(spending \ {r}, c, FormatDate(2026, 2, 19)) = 20
          /\ ReportedRemaining(spending, c, FormatDate(2026, 2, 19)) = 0

----------------------------------------------------------------------------
(* Properties of the engine over a failing storage collaborator (SpecFailure) *)

\* The last call was best_card_for_category with a storage call that failed.
StorageFailed == last.op = "best_card_storage_failure"

\* Which storage call failed: 1 the candidate query, k + 1 the cycle-total
\* query of candidate k.
FailedCall == last.args[5]

\* C13: when the card lookup or the cycle-total lookup of any candidate fails,
\* best_card_for_category returns the error and no recommendation list, also
\* when the lookups of earlier candidates had succeeded.
C13_FailurePropagates ==
    StorageFailed => (~last.ok /\ last.val = <<>>)

\* Two cards qualify, the lookups of the first succeeded and the cycle-total
\* lookup of the second failed.
C13_Witness ==
    /\ StorageFailed
    /\ FailedCall = 3
    /\ Cardinality(QualifyingCards) = 2
    /\ \A c \in QualifyingCards : c.block_size > 0
    /\ ~last.ok

----------------------------------------------------------------------------
(* Properties of the store under interleaved calls (SpecConc) *)

\* C19: when add_spending and remove_card of two clients interleave statement
\* by statement (look up the card, insert the record; delete the card's
\* records, delete the card), no reachable state holds a spending record
\* whose card has been removed.
C19_NoOrphanInterleaved ==
    \A r \in spending :
        r.card_id < nextCardId => \E c \in cards : c.id = r.card_id

====
